---- MODULE Spec2Model ----
(***************************************************************************)
(* SmartToll: the Billing Consumer (billing_service/app) and the Toll      *)
(* Processor (toll_processor/app) as state machines.                       *)
(*                                                                         *)
(* Spec      the Billing Consumer: two service instances, each consuming   *)
(*           its own partition of the TollEvent topic, sharing the         *)
(*           transaction database, the payment gateway and the             *)
(*           PaymentResult topic.                                          *)
(* SpecPre   the same, started on a database that already holds a row      *)
(*           (written by an earlier run or by an out-of-band policy).      *)
(* SpecToll  the Zone Tracker of the Toll Processor.                       *)
(***************************************************************************)
EXTENDS Integers, Sequences, FiniteSets, Bags, TLC

\* ---------------------------------------------------------------- bounds
MaxLog == 2

MaxFixes == 3

\* records per partition of the GPS topic
MaxGps == 2

\* length of one step between positions, in tenths of a km
StepTenths == 5

\* ------------------------------------------------------------ vocabulary
None == "None"

Workers == {"w1", "w2"}

Vehicles == {"VEH_A", "VEH_B"}

Devices == {"DEV1", "DEV2"}

Events == {"e1", "e2"}

\* a record of the TollEvent topic: a TollEvent (its eventId) or a payload
\* that does not validate as a TollEvent
BadRecord == "bad"

Records == Events \cup {BadRecord}

VehicleOf(e) == IF e = "e1" THEN "VEH_1" ELSE "VEH_2"

Statuses == {"PENDING", "PROCESSING", "SUCCESS", "FAILED", "RETRY"}

\* (message, error_code) pairs raised by the gateway as PaymentGatewayError
GatewayErrors == {<<"Card declined", "CARD_DECLINED">>}

\* str(e) of an exception that is not a PaymentGatewayError
OtherErrors == {"boom"}

SeqsUpTo(S, n) == UNION {[1..k -> S] : k \in 0..n}

VARIABLES
  log,         \* log[w]: the records of the partition assigned to instance w
  position,    \* position[w]: consumer position (records handed out by poll)
  committed,   \* committed[w]: committed offset of the partition
  batch,       \* batch[w]: offsets returned by the last poll, not yet handled
  pc,          \* pc[w]: where instance w is in process_message / the workflow
  loc,         \* loc[w]: locals of process_toll_event_for_billing
  rows,        \* table billing_transactions; the row id is the index
  gwCalls,     \* gwCalls[e]: number of payment.process_payment calls for e
  published,   \* PaymentResult topic: a bag of PaymentResult records
  trace,       \* trace[w]: calls made by the current workflow run, in order
  lastResult   \* lastResult[w][o]: signal returned for the record at offset o

\* the Billing Consumer's state
bvars == <<log, position, committed, batch, pc, loc, rows, gwCalls, published,
           trace, lastResult>>

VARIABLES
  store,       \* state store: store[v] is the VehicleState of v, if any
  tollEvents,  \* TollEvent topic: the TollEvents emitted, in order
  errorSink,   \* number of error envelopes published to the error sink
  fixCount,    \* fixCount[v]: GPS records of vehicle v processed so far
  everInZone,  \* everInZone[v]: some processed valid fix of v was in a zone
  lastMsg,     \* the last process_gps_message call: its input, what it read
               \* and the calls it made on the state store and the publisher
  lastGet      \* the last get_vehicle_state call made on its own: the value
               \* under the key when it was made, and what it returned

\* the Zone Tracker's state
kvars == <<store, tollEvents, errorSink, fixCount, everInZone, lastMsg,
           lastGet>>

VARIABLES
  gpsLog,       \* gpsLog[tp]: the records of partition tp of the GPS topic
  gpsPosition,  \* gpsPosition[tp]: consumer position (records handed out)
  gpsCommitted, \* gpsCommitted[tp]: committed offset of partition tp
  handled,      \* handled[tp]: offsets passed to process_gps_message, in order
  running,      \* the module-level flag of main.py
  signals,      \* termination signals delivered to the process so far
  loop,         \* the consumer thread: its position in main_consumer_loop
                \* and its locals
  mainPc,       \* the main thread: its position in run_service
  closed        \* the shared resources that are closed

\* the GPS consumer loop's state
lvars == <<gpsLog, gpsPosition, gpsCommitted, handled, running, signals,
           loop, mainPc, closed>>

VARIABLES
  instance,     \* instance[g]: the module-level singleton of getter g
                \* (_producer, _consumer, _db_pool, _redis_client); 0 is None
  created,      \* created[g]: the instances constructed for g so far
  lock,         \* lock[g]: the thread holding g's initialisation lock
  thr           \* thr[t]: thread t's position in the getter it has called

\* the lazily created singletons of the Toll Processor
gvars == <<instance, created, lock, thr>>

\* the Toll Processor's state
tvars == <<kvars, lvars, gvars>>

vars == <<bvars, tvars>>

NoLocals == [event |-> None, tx_id |-> 0, final_status |-> "FAILED",
             gateway_ref |-> None, payment_error_msg |-> None,
             success |-> FALSE]

\* ------------------------------------------------------------- database
NewTx(e) == [toll_event_id |-> e, vehicle_id |-> VehicleOf(e),
             status |-> "PENDING", payment_gateway_ref |-> None,
             error_message |-> None, retry_count |-> 0]

\* select(BillingTransaction).where(toll_event_id == eventId) ... .first()
RowsFor(tbl, e) == {i \in DOMAIN tbl : tbl[i].toll_event_id = e}

ExistingTx(tbl, e) ==
  IF RowsFor(tbl, e) = {} THEN 0 ELSE CHOOSE i \in RowsFor(tbl, e) : TRUE

\* unique=True on toll_event_id: the insert of a second row is refused
UniqueViolation_NoConstraint(tbl, e) == FALSE

UniqueViolation(tbl, e) == RowsFor(tbl, e) # {}

\* statuses of an existing row for which the probe returns True at once
IsHandledStatus_OnlySuccess(s) == s = "SUCCESS"

IsHandledStatus(s) == s \in {"SUCCESS", "PENDING", "PROCESSING", "RETRY"}

\* ---------------------------------------------------------------- kafka
\* KafkaConsumer.poll: hands out the next k records and moves the position
PollResult(w, k) == [i \in 1..k |-> position[w] + i]

\* KafkaConsumer.commit() without arguments: commits the consumer position
CommitOffsets(w) == [committed EXCEPT ![w] = position[w]]

\* no process_gps_message call yet
NoMsg == [kind |-> "none"]

\* no get_vehicle_state call yet
NoGet == [vehicleId |-> None]

\* partitions of the GPS topic assigned to the consumer
Partitions == {"p0", "p1"}

\* a record of the GPS topic, by what process_gps_message does with it:
\* returns True, returns False, raises
GpsKinds == {"ok", "fail", "raise"}

\* the process-wide singletons closed at the end of run_service
Resources == {"consumer", "producer", "dbpool", "redis"}

\* the getters that initialise under a lock
Locked == {"consumer", "producer", "dbpool"}

\* the threads that call the getters: the consumer thread and the health
\* server's thread
Threads == {"consumer_thread", "health_thread"}

\* a thread that is in no getter
NoCall == [pc |-> "idle", g |-> None, atNone |-> FALSE, base |-> 0,
           failed |-> FALSE, result |-> 0]

\* the modules as imported: no singleton yet
GettersLoaded ==
  /\ instance = [g \in Resources |-> 0]
  /\ created = [g \in Resources |-> 0]
  /\ lock = [g \in Resources |-> None]
  /\ thr = [t \in Threads |-> NoCall]

\* the singletons as run_service has created them before it starts the
\* threads
GettersStarted ==
  /\ instance = [g \in Resources |-> 1]
  /\ created = [g \in Resources |-> 1]
  /\ lock = [g \in Resources |-> None]
  /\ thr = [t \in Threads |-> NoCall]

\* the consumer thread between two polls
LoopAtPoll ==
  [pc |-> "poll", message_pack |-> [tp \in Partitions |-> << >>],
   tp |-> None, messages |-> << >>, commit_needed |-> FALSE,
   last_processed_offset |-> 0 - 1]

\* the service after startup, with the consumer thread at its first poll
LoopStarted ==
  /\ gpsPosition = [tp \in Partitions |-> 0]
  /\ gpsCommitted = [tp \in Partitions |-> 0]
  /\ handled = [tp \in Partitions |-> << >>]
  /\ running = TRUE
  /\ signals = 0
  /\ loop = LoopAtPoll
  /\ mainPc = "watch"
  /\ closed = {}

\* the Toll Processor before its first record
TollIdle ==
  /\ store = [v \in Vehicles |-> [in_zone |-> FALSE]]
  /\ tollEvents = << >>
  /\ errorSink = 0
  /\ fixCount = [v \in Vehicles |-> 0]
  /\ everInZone = [v \in Vehicles |-> FALSE]
  /\ lastMsg = NoMsg
  /\ lastGet = NoGet
  /\ gpsLog = [tp \in Partitions |-> << >>]
  /\ LoopStarted
  /\ GettersStarted

Init ==
  /\ \/ /\ log \in [Workers -> SeqsUpTo(Records, MaxLog)]
        /\ log["w2"] = << >>
     \/ /\ log \in [Workers -> SeqsUpTo({"e1"}, MaxLog)]
        /\ Len(log["w2"]) <= 1
  /\ position = [w \in Workers |-> 0]
  /\ committed = [w \in Workers |-> 0]
  /\ batch = [w \in Workers |-> << >>]
  /\ pc = [w \in Workers |-> "idle"]
  /\ loc = [w \in Workers |-> NoLocals]
  /\ rows = << >>
  /\ gwCalls = [e \in Events |-> 0]
  /\ published = EmptyBag
  /\ trace = [w \in Workers |-> << >>]
  /\ lastResult = [w \in Workers |-> [o \in 1..Len(log[w]) |-> "none"]]
  /\ TollIdle

\* ------------------------------------------- process_toll_event_for_billing
Log(w, ev) == [trace EXCEPT ![w] = Append(@, ev)]

\* "<code>: <message>" of a PaymentGatewayError
GatewayErrorMessage_MessageOnly(pge) == pge[1]

GatewayErrorMessage(pge) == pge[2] \o ": " \o pge[1]

UnexpectedErrorMessage(s) == "Unexpected system error: " \o s

\* reference returned by the gateway for a transaction (a fresh uuid)
GatewayRef(tx_id) == "MOCKGW_" \o ToString(tx_id)

\* the three assignments before the final commit
FinalRow_NoRef(row, l) ==
  [row EXCEPT !.status = l.final_status,
              !.error_message = l.payment_error_msg]

FinalRow(row, l) ==
  [row EXCEPT !.status = l.final_status,
              !.payment_gateway_ref = l.gateway_ref,
              !.error_message = l.payment_error_msg]

PaymentResultOf_NoTransactionId(l) ==
  [eventId |-> l.event, transactionId |-> 0,
   vehicleId |-> VehicleOf(l.event), status |-> l.final_status,
   gatewayReference |-> l.gateway_ref, errorMessage |-> l.payment_error_msg]

PaymentResultOf(l) ==
  [eventId |-> l.event, transactionId |-> l.tx_id,
   vehicleId |-> VehicleOf(l.event), status |-> l.final_status,
   gatewayReference |-> l.gateway_ref, errorMessage |-> l.payment_error_msg]

\* consumer.poll(timeout_ms=200) returning a non-empty batch
Poll(w) ==
  /\ pc[w] = "idle" /\ batch[w] = << >>
  /\ \E k \in 1..(Len(log[w]) - position[w]) :
       /\ batch' = [batch EXCEPT ![w] = PollResult(w, k)]
       /\ position' = [position EXCEPT ![w] = @ + k]
  /\ UNCHANGED tvars
  /\ UNCHANGED <<log, committed, pc, loc, rows, gwCalls, published, trace,
                 lastResult>>

\* process_message on a payload that is no TollEvent: ValidationError
PoisonPill(w) ==
  /\ pc[w] = "idle" /\ batch[w] # << >>
  /\ log[w][Head(batch[w])] = BadRecord
  /\ committed' = CommitOffsets(w)
  /\ lastResult' = [lastResult EXCEPT ![w][Head(batch[w])] = "poison"]
  /\ batch' = [batch EXCEPT ![w] = Tail(@)]
  /\ UNCHANGED tvars
  /\ UNCHANGED <<log, position, pc, loc, rows, gwCalls, published, trace>>

\* step 1, the idempotency check
Probe(w) ==
  /\ pc[w] = "idle" /\ batch[w] # << >>
  /\ log[w][Head(batch[w])] \in Events
  /\ LET e == log[w][Head(batch[w])]
         existing_tx == ExistingTx(rows, e)
     IN /\ trace' = [trace EXCEPT ![w] = <<"select">>]
        /\ IF existing_tx # 0 /\ IsHandledStatus(rows[existing_tx].status)
           THEN /\ loc' = [loc EXCEPT ![w] = [NoLocals EXCEPT !.event = e,
                                                        !.success = TRUE]]
                /\ pc' = [pc EXCEPT ![w] = "ret"]
           ELSE /\ loc' = [loc EXCEPT ![w] = [NoLocals EXCEPT !.event = e]]
                /\ pc' = [pc EXCEPT ![w] = "insert"]
  /\ UNCHANGED tvars
  /\ UNCHANGED <<log, position, committed, batch, rows, gwCalls, published,
                 lastResult>>

\* step 1 when the select itself raises: the exception leaves the workflow
\* and process_message commits the offset to skip the record
ProbeError(w) ==
  /\ pc[w] = "idle" /\ batch[w] # << >>
  /\ log[w][Head(batch[w])] \in Events
  /\ committed' = CommitOffsets(w)
  /\ lastResult' = [lastResult EXCEPT ![w][Head(batch[w])] = "raised"]
  /\ batch' = [batch EXCEPT ![w] = Tail(@)]
  /\ UNCHANGED tvars
  /\ UNCHANGED <<log, position, pc, loc, rows, gwCalls, published, trace>>

\* step 2, db.add / flush / commit of the PENDING row
InsertPending(w) ==
  /\ pc[w] = "insert"
  /\ \/ /\ UniqueViolation(rows, loc[w].event)          \* IntegrityError
        /\ trace' = Log(w, "rollback")
        /\ loc' = [loc EXCEPT ![w].success = TRUE]
        /\ pc' = [pc EXCEPT ![w] = "ret"]
        /\ rows' = rows
     \/ /\ trace' = Log(w, "rollback")                  \* SQLAlchemyError
        /\ loc' = [loc EXCEPT ![w].success = FALSE]
        /\ pc' = [pc EXCEPT ![w] = "ret"]
        /\ rows' = rows
     \/ /\ ~UniqueViolation(rows, loc[w].event)
        /\ rows' = Append(rows, NewTx(loc[w].event))
        /\ trace' = Log(w, "commit PENDING")
        /\ loc' = [loc EXCEPT ![w].tx_id = Len(rows) + 1]
        /\ pc' = [pc EXCEPT ![w] = "mark"]
  /\ UNCHANGED tvars
  /\ UNCHANGED <<log, position, committed, batch, gwCalls, published,
                 lastResult>>

\* the table after new_tx.status = "PROCESSING"; db.commit()
MarkedProcessing_NotCommitted(tbl, id) == tbl

MarkedProcessing(tbl, id) == [tbl EXCEPT ![id].status = "PROCESSING"]

\* step 3a, new_tx.status = "PROCESSING"; db.commit()
MarkProcessing(w) ==
  /\ pc[w] = "mark"
  /\ \/ /\ rows' = MarkedProcessing(rows, loc[w].tx_id)
        /\ trace' = Log(w, "commit PROCESSING")
        /\ loc' = loc
        /\ pc' = [pc EXCEPT ![w] = "gateway"]
     \/ /\ rows' = rows            \* the commit raises: except Exception
        /\ trace' = Log(w, "commit raised")
        /\ loc' = [loc EXCEPT ![w].payment_error_msg =
                                      UnexpectedErrorMessage("Connection lost"),
                              ![w].final_status = "FAILED"]
        /\ pc' = [pc EXCEPT ![w] = "final"]
  /\ UNCHANGED tvars
  /\ UNCHANGED <<log, position, committed, batch, gwCalls, published,
                 lastResult>>

\* step 3b, await payment.process_payment(...)
CallGateway(w) ==
  /\ pc[w] = "gateway"
  /\ gwCalls' = [gwCalls EXCEPT ![loc[w].event] = @ + 1]
  /\ \/ /\ loc' = [loc EXCEPT ![w].gateway_ref = GatewayRef(loc[w].tx_id),
                              ![w].final_status = "SUCCESS"]
        /\ trace' = Log(w, "gateway ok")
     \/ \E pge \in GatewayErrors :
        /\ loc' = [loc EXCEPT ![w].payment_error_msg = GatewayErrorMessage(pge),
                              ![w].final_status = "FAILED"]
        /\ trace' = Log(w, "gateway PaymentGatewayError")
     \/ \E s \in OtherErrors :
        /\ loc' = [loc EXCEPT ![w].payment_error_msg = UnexpectedErrorMessage(s),
                              ![w].final_status = "FAILED"]
        /\ trace' = Log(w, "gateway Exception")
  /\ pc' = [pc EXCEPT ![w] = "final"]
  /\ UNCHANGED tvars
  /\ UNCHANGED <<log, position, committed, batch, rows, published, lastResult>>

\* step 4, db.get, the three assignments, db.commit()
UpdateFinalStatus(w) ==
  /\ pc[w] = "final"
  /\ \/ /\ loc[w].tx_id \in DOMAIN rows
        /\ rows' = [rows EXCEPT ![loc[w].tx_id] = FinalRow(@, loc[w])]
        /\ trace' = Log(w, "commit " \o loc[w].final_status)
        /\ loc' = loc
        /\ pc' = [pc EXCEPT ![w] = "publish"]
     \/ /\ rows' = rows            \* SQLAlchemyError: rollback, return False
        /\ trace' = Log(w, "rollback")
        /\ loc' = [loc EXCEPT ![w].success = FALSE]
        /\ pc' = [pc EXCEPT ![w] = "ret"]
  /\ UNCHANGED tvars
  /\ UNCHANGED <<log, position, committed, batch, gwCalls, published,
                 lastResult>>

\* step 5, kafka_client.send_message(PAYMENT_EVENT_TOPIC, ...); return True
PublishResult(w) ==
  /\ pc[w] = "publish"
  /\ \/ /\ published' = published (+) SetToBag({PaymentResultOf(loc[w])})
        /\ trace' = Log(w, "send ok")
     \/ /\ published' = published            \* send_message returns False
        /\ trace' = Log(w, "send failed")
  /\ loc' = [loc EXCEPT ![w].success = TRUE]
  /\ pc' = [pc EXCEPT ![w] = "ret"]
  /\ UNCHANGED tvars
  /\ UNCHANGED <<log, position, committed, batch, rows, gwCalls, lastResult>>

\* "if success:" in process_message
ShouldCommit_Always(success) == TRUE

ShouldCommit(success) == success

\* process_message after the workflow returned: commit if success
FinishMessage(w) ==
  /\ pc[w] = "ret"
  /\ committed' = IF ShouldCommit(loc[w].success) THEN CommitOffsets(w)
                                                   ELSE committed
  /\ lastResult' = [lastResult EXCEPT ![w][Head(batch[w])] =
                      IF loc[w].success THEN "ok" ELSE "fail"]
  /\ batch' = [batch EXCEPT ![w] = Tail(@)]
  /\ pc' = [pc EXCEPT ![w] = "idle"]
  /\ loc' = [loc EXCEPT ![w] = NoLocals]
  /\ trace' = [trace EXCEPT ![w] = << >>]
  /\ UNCHANGED tvars
  /\ UNCHANGED <<log, position, rows, gwCalls, published>>

\* the instance is restarted between two polls: the new consumer resumes at
\* the committed offset
Restart(w) ==
  /\ pc[w] = "idle" /\ batch[w] = << >>
  /\ position[w] # committed[w]
  /\ position' = [position EXCEPT ![w] = committed[w]]
  /\ UNCHANGED tvars
  /\ UNCHANGED <<log, committed, batch, pc, loc, rows, gwCalls, published,
                 trace, lastResult>>

Next ==
  \E w \in Workers :
    \/ Poll(w)
    \/ PoisonPill(w)
    \/ Probe(w)
    \/ ProbeError(w)
    \/ InsertPending(w)
    \/ MarkProcessing(w)
    \/ CallGateway(w)
    \/ UpdateFinalStatus(w)
    \/ PublishResult(w)
    \/ FinishMessage(w)
    \/ Restart(w)

Spec == Init /\ [][Next]_vars

\* a database that already holds a row for e1, in any status
PreRow(s) == [NewTx("e1") EXCEPT !.status = s]

InitPre ==
  /\ log \in [Workers -> SeqsUpTo(Records, MaxLog)]
  /\ log["w2"] = << >>
  /\ position = [w \in Workers |-> 0]
  /\ committed = [w \in Workers |-> 0]
  /\ batch = [w \in Workers |-> << >>]
  /\ pc = [w \in Workers |-> "idle"]
  /\ loc = [w \in Workers |-> NoLocals]
  /\ rows \in {<<PreRow(s)>> : s \in Statuses}
  /\ gwCalls = [e \in Events |-> 0]
  /\ published = EmptyBag
  /\ trace = [w \in Workers |-> << >>]
  /\ lastResult = [w \in Workers |-> [o \in 1..Len(log[w]) |-> "none"]]
  /\ TollIdle

SpecPre == InitPre /\ [][Next]_vars

\* the consumer loop never stops while it has a step to take: a record to
\* handle, a poll that returns records, a restart that has records to resume
SpecLive == Init /\ [][Next]_vars /\ WF_vars(Next)

\* ================================================== the Toll Processor
\* the Billing Consumer with nothing to consume
BillingIdle ==
  /\ log = [w \in Workers |-> << >>]
  /\ position = [w \in Workers |-> 0]
  /\ committed = [w \in Workers |-> 0]
  /\ batch = [w \in Workers |-> << >>]
  /\ pc = [w \in Workers |-> "idle"]
  /\ loc = [w \in Workers |-> NoLocals]
  /\ rows = << >>
  /\ gwCalls = [e \in Events |-> 0]
  /\ published = EmptyBag
  /\ trace = [w \in Workers |-> << >>]
  /\ lastResult = [w \in Workers |-> << >>]

\* no VehicleState under the key; no zone row for the point
NoState == [in_zone |-> FALSE]

NoZone == [zone_id |-> None]

\* positions along a road, one step apart; timestamps inside the accepted
\* freshness window
Positions == 0..3

Timestamps == 0..1

\* the fixes a vehicle sends: VEH_A roams over the whole road and reports
\* through either device at any time; VEH_B stays at the edge of ZoneA
GpsFixes(v) ==
  IF v = "VEH_A"
  THEN [p : Positions, ts : Timestamps, deviceId : Devices]
  ELSE [p : 0..1, ts : {0}, deviceId : {"DEV1"}]

\* table toll_zones: ST_Contains(geom, point); rates in cents per km
ZoneAt(p) ==
  IF p \in {1, 2} THEN [zone_id |-> "ZoneA", rate_per_km |-> 15]
  ELSE IF p = 3 THEN [zone_id |-> "ZoneB", rate_per_km |-> 20]
  ELSE NoZone

\* database.get_current_toll_zone: the zone row, None on any database error
get_current_toll_zone_ErrorIsZone(p, dbOk) ==
  IF dbOk THEN ZoneAt(p) ELSE ZoneAt(1)

get_current_toll_zone(p, dbOk) == IF dbOk THEN ZoneAt(p) ELSE NoZone

\* values under a key that are no VehicleState: not JSON; JSON that does
\* not validate
CorruptJson == [corrupt |-> "json"]

CorruptSchema == [corrupt |-> "schema"]

CorruptValues == {CorruptJson, CorruptSchema}

\* json.loads(state_json); VehicleState(**state_dict)
ParseState(raw) ==
  IF raw = CorruptJson THEN "JSONDecodeError"
  ELSE IF raw = CorruptSchema THEN "ValidationError"
  ELSE "ok"

\* state.get_vehicle_state: the stored state; None on a connection error
\* and on a value that does not parse
get_vehicle_state(v, redisOk) ==
  IF redisOk /\ ParseState(store[v]) = "ok" THEN store[v] ELSE NoState

\* the store after get_vehicle_state: on JSONDecodeError the key is deleted
\* (unless the delete fails too)
StoreAfterGet(st, v, redisOk, delOk) ==
  IF redisOk /\ ParseState(st[v]) = "JSONDecodeError" /\ delOk
  THEN [st EXCEPT ![v] = NoState] ELSE st

\* outcomes of the client.delete of a corrupt key
DeleteOutcomes(raw) ==
  IF ParseState(raw) = "JSONDecodeError" THEN BOOLEAN ELSE {TRUE}

\* state.update_vehicle_state: SET with TTL, or DELETE when state is None
update_vehicle_state_NoSet(st, v, state) ==
  IF state = NoState THEN [st EXCEPT ![v] = NoState] ELSE st

update_vehicle_state_NoDelete(st, v, state) ==
  IF state = NoState THEN st ELSE [st EXCEPT ![v] = state]

update_vehicle_state(st, v, state) == [st EXCEPT ![v] = state]

\* kafka_client.publish_error: one envelope on the error topic, unless
\* send_message returns False
publish_error_Dropped(sink, sendOk) == sink

publish_error(sink, sendOk) == IF sendOk THEN sink + 1 ELSE sink

\* GpsData validation: every required field is present and the timestamp
\* lies in [now - 10 min, now + 60 s]; ages (now - timestamp) in seconds
MaxAgeSeconds == 600

MaxFutureSeconds == 60

Ages == {0 - 120, 0, 660}

Validates(complete, age) ==
  /\ complete
  /\ age <= MaxAgeSeconds
  /\ age >= 0 - MaxFutureSeconds

\* a coordinate that is None
Missing == 0 - 1

\* processing.calculate_distance_haversine, in tenths of a km; 0.0 when a
\* coordinate is missing
calculate_distance_haversine_Signed(p, q) ==
  IF p = Missing \/ q = Missing THEN 0 ELSE StepTenths * (q - p)

calculate_distance_haversine(p, q) ==
  IF p = Missing \/ q = Missing THEN 0
  ELSE StepTenths * (IF p >= q THEN p - q ELSE q - p)

\* round_half_up(distanceKm * ratePerKm, 2), in cents
TollAmount_Truncate(distance, rate) == (distance * rate) \div 10

TollAmount(distance, rate) == (distance * rate + 5) \div 10

NewVehicleState(zone, ts, p, dev) ==
  [in_zone |-> TRUE, zone_id |-> zone.zone_id,
   rate_per_km |-> zone.rate_per_km, entry_time |-> ts, distance_km |-> 0,
   lat |-> p, last_update |-> ts, deviceId |-> dev]

\* the InZone update of the stored state
MovedVehicleState_KeepPosition(prior, ts, p) ==
  [prior EXCEPT !.distance_km = @ + calculate_distance_haversine(prior.lat, p),
                !.last_update = ts]

MovedVehicleState(prior, ts, p) ==
  [prior EXCEPT !.distance_km = @ + calculate_distance_haversine(prior.lat, p),
                !.lat = p, !.last_update = ts]

NewTollEvent(v, prior, ts, p) ==
  LET distance == prior.distance_km
                  + calculate_distance_haversine(prior.lat, p)
  IN [eventId |-> Len(tollEvents) + 1, vehicleId |-> v,
      deviceId |-> prior.deviceId, zoneId |-> prior.zone_id,
      entryTime |-> prior.entry_time, exitTime |-> ts,
      distanceKm |-> distance, ratePerKm |-> prior.rate_per_km,
      tollAmount |-> TollAmount(distance, prior.rate_per_km)]

TotalFixes == fixCount["VEH_A"] + fixCount["VEH_B"]

\* the transition table of the Tracker: the update_vehicle_state calls and
\* the TollEvents sent for a valid fix, in call order
TrackerCalls_SilentTransition(v, p, ts, dev, prior, zone) ==
  IF prior = NoState /\ zone = NoZone
  THEN [updates |-> << >>, sent |-> << >>]
  ELSE IF prior = NoState
  THEN [updates |-> <<NewVehicleState(zone, ts, p, dev)>>, sent |-> << >>]
  ELSE IF zone = NoZone
  THEN [updates |-> <<NoState>>,
        sent |-> <<NewTollEvent(v, prior, ts, p)>>]
  ELSE IF zone.zone_id = prior.zone_id
  THEN [updates |-> <<MovedVehicleState(prior, ts, p)>>, sent |-> << >>]
  ELSE [updates |-> <<NoState,
                      NewVehicleState(zone, ts, p, prior.deviceId)>>,
        sent |-> << >>]

TrackerCalls(v, p, ts, dev, prior, zone) ==
  IF prior = NoState /\ zone = NoZone                          \* Outside
  THEN [updates |-> << >>, sent |-> << >>]
  ELSE IF prior = NoState                                      \* Entry
  THEN [updates |-> <<NewVehicleState(zone, ts, p, dev)>>, sent |-> << >>]
  ELSE IF zone = NoZone                                        \* Exit
  THEN [updates |-> <<NoState>>,
        sent |-> <<NewTollEvent(v, prior, ts, p)>>]
  ELSE IF zone.zone_id = prior.zone_id                         \* InZone
  THEN [updates |-> <<MovedVehicleState(prior, ts, p)>>, sent |-> << >>]
  ELSE [updates |-> <<NoState,                                 \* Transition
                      NewVehicleState(zone, ts, p, prior.deviceId)>>,
        sent |-> <<NewTollEvent(v, prior, ts, p)>>]

\* the state store after the update_vehicle_state calls, in order
ApplyUpdates_FirstOnly(st, v, updates) ==
  IF updates = << >> THEN st
  ELSE update_vehicle_state(st, v, Head(updates))

RECURSIVE ApplyUpdates(_, _, _)
ApplyUpdates(st, v, updates) ==
  IF updates = << >> THEN st
  ELSE ApplyUpdates(update_vehicle_state(st, v, Head(updates)), v,
                    Tail(updates))

\* processing.process_gps_message on a record that validates as a GpsFix
ProcessGps(v) ==
  /\ TotalFixes < MaxFixes
  /\ \E age \in Ages, fix \in GpsFixes(v), dbOk \in BOOLEAN,
        redisOk \in BOOLEAN, delOk \in DeleteOutcomes(store[v]) :
       LET prior == get_vehicle_state(v, redisOk)
           zone == get_current_toll_zone(fix.p, dbOk)
           calls == TrackerCalls(v, fix.p, fix.ts, fix.deviceId, prior, zone)
       IN /\ Validates(TRUE, age)
          /\ store' = ApplyUpdates(StoreAfterGet(store, v, redisOk, delOk),
                                    v, calls.updates)
          /\ tollEvents' = tollEvents \o calls.sent
          /\ everInZone' = [everInZone EXCEPT
                              ![v] = @ \/ ZoneAt(fix.p) # NoZone]
          /\ lastMsg' = [kind |-> "fix", vehicleId |-> v, fix |-> fix,
                         complete |-> TRUE, age |-> age,
                         prior |-> prior, zone |-> zone,
                         lookupOk |-> dbOk, reads |-> 1, lookups |-> 1,
                         updates |-> calls.updates, sent |-> calls.sent,
                         errors |-> 0, result |-> TRUE]
  /\ fixCount' = [fixCount EXCEPT ![v] = @ + 1]
  /\ errorSink' = errorSink
  /\ lastGet' = lastGet
  /\ UNCHANGED <<bvars, lvars, gvars>>

\* processing.process_gps_message on a record that fails validation (a
\* missing field, a timestamp outside the freshness window)
ProcessInvalid(v) ==
  /\ TotalFixes < MaxFixes
  /\ \E complete \in BOOLEAN, age \in Ages, sendOk \in BOOLEAN :
       /\ ~Validates(complete, age)
       /\ errorSink' = publish_error(errorSink, sendOk)
       /\ lastMsg' = [kind |-> "invalid", vehicleId |-> v,
                      complete |-> complete, age |-> age,
                      reads |-> 0, lookups |-> 0,
                      updates |-> << >>, sent |-> << >>,
                      errors |-> 1, errorSent |-> sendOk, result |-> TRUE]
  /\ fixCount' = [fixCount EXCEPT ![v] = @ + 1]
  /\ UNCHANGED <<store, tollEvents, everInZone, lastGet>>
  /\ UNCHANGED <<bvars, lvars, gvars>>

\* the TTL of a stored state runs out
Expire(v) ==
  /\ store[v] # NoState
  /\ store' = [store EXCEPT ![v] = NoState]
  /\ UNCHANGED <<tollEvents, errorSink, fixCount, everInZone, lastMsg,
                 lastGet>>
  /\ UNCHANGED <<bvars, lvars, gvars>>

NextToll ==
  \E v \in Vehicles :
    \/ ProcessGps(v)
    \/ ProcessInvalid(v)
    \/ Expire(v)

InitToll == BillingIdle /\ TollIdle

SpecToll == InitToll /\ [][NextToll]_vars

\* ============================== the GPS consumer loop and its shutdown
\* the Zone Tracker with nothing stored
TrackerIdle ==
  /\ store = [v \in Vehicles |-> NoState]
  /\ tollEvents = << >>
  /\ errorSink = 0
  /\ fixCount = [v \in Vehicles |-> 0]
  /\ everInZone = [v \in Vehicles |-> FALSE]
  /\ lastMsg = NoMsg
  /\ lastGet = NoGet

\* partitions for which the pack still holds messages
InPack(pack) == {tp \in Partitions : pack[tp] # << >>}

\* KafkaConsumer.commit() without arguments: the position of every assigned
\* partition becomes its committed offset
CommitPositions == gpsPosition

\* the singletons a record's processing asks its getter for; a getter
\* constructs the singleton again when it is None
UsedBy(kind) == IF kind = "raise" THEN {"producer"} ELSE {"redis", "dbpool"}

\* shutdown_handler: SIGINT or SIGTERM, while the process is alive; with
\* running already False the handler returns at once
Signal ==
  /\ signals < 2 /\ mainPc # "stopped"
  /\ signals' = signals + 1
  /\ running' = IF ~running THEN running ELSE FALSE
  /\ UNCHANGED <<gpsLog, gpsPosition, gpsCommitted, handled, loop, mainPc,
                 closed>>
  /\ UNCHANGED <<bvars, kvars, gvars>>

\* the n records of partition tp a poll hands out: the ones after the
\* consumer position, in offset order
Fetched_Reversed(tp, n) == [i \in 1..n |-> gpsPosition[tp] + n + 1 - i]

Fetched(tp, n) == [i \in 1..n |-> gpsPosition[tp] + i]

\* consumer.poll(timeout_ms=1000, max_records=100) returning records
LoopPoll ==
  /\ loop.pc = "poll" /\ running
  /\ \E n \in [Partitions -> 0..MaxGps] :
       /\ \E tp \in Partitions : n[tp] > 0
       /\ \A tp \in Partitions : gpsPosition[tp] + n[tp] <= Len(gpsLog[tp])
       /\ gpsPosition' = [tp \in Partitions |-> gpsPosition[tp] + n[tp]]
       /\ loop' = [loop EXCEPT
                     !.pc = "polled",
                     !.message_pack =
                        [tp \in Partitions |-> Fetched(tp, n[tp])]]
  /\ UNCHANGED <<gpsLog, gpsCommitted, handled, running, mainPc, closed>>
  /\ UNCHANGED <<signals, bvars, kvars, gvars>>

\* "while running" is false, or "elif not running: break" after a poll:
\* the thread leaves the loop
LoopExit ==
  /\ loop.pc \in {"poll", "polled"} /\ ~running
  /\ loop' = [loop EXCEPT !.pc = "done"]
  /\ UNCHANGED <<gpsLog, gpsPosition, gpsCommitted, handled, running, mainPc,
                 closed>>
  /\ UNCHANGED <<signals, bvars, kvars, gvars>>

\* "for tp, messages in message_pack.items()": the next partition
LoopNextPartition ==
  /\ loop.pc \in {"polled", "partition"}
  /\ loop.pc = "polled" => running
  /\ \E tp \in InPack(loop.message_pack) :
       loop' = [loop EXCEPT
                  !.pc = "message", !.tp = tp,
                  !.messages = loop.message_pack[tp],
                  !.message_pack = [@ EXCEPT ![tp] = << >>],
                  !.commit_needed = FALSE,
                  !.last_processed_offset = 0 - 1]
  /\ UNCHANGED <<gpsLog, gpsPosition, gpsCommitted, handled, running, mainPc,
                 closed>>
  /\ UNCHANGED <<signals, bvars, kvars, gvars>>

\* the body of "for message in messages" while running; an exception out
\* of process_gps_message is reported with kafka_client.publish_error
LoopProcessMessage ==
  /\ loop.pc = "message" /\ loop.messages # << >> /\ running
  /\ LET offset == Head(loop.messages)
         kind == gpsLog[loop.tp][offset]
     IN /\ handled' = [handled EXCEPT ![loop.tp] = Append(@, offset)]
        /\ closed' = closed \ UsedBy(kind)
        /\ loop' = IF kind = "fail"
                   THEN [loop EXCEPT !.messages = Tail(@)]
                   ELSE [loop EXCEPT !.messages = Tail(@),
                                     !.commit_needed = TRUE,
                                     !.last_processed_offset = offset]
        /\ IF kind = "raise"
           THEN \E sendOk \in BOOLEAN :
                  errorSink' = publish_error(errorSink, sendOk)
           ELSE errorSink' = errorSink
  /\ UNCHANGED <<gpsLog, gpsPosition, gpsCommitted, running, mainPc>>
  /\ UNCHANGED <<store, tollEvents, fixCount, everInZone, lastMsg, lastGet>>
  /\ UNCHANGED <<signals, bvars, gvars>>

\* the end of the partition's messages, or "if not running: break"; then
\* the commit, and "if not running: break" out of the partition loop
LoopCommit ==
  /\ loop.pc = "message"
  /\ loop.messages = << >> \/ ~running
  /\ \/ /\ loop.commit_needed /\ loop.last_processed_offset >= 0
        /\ "consumer" \notin closed
        /\ gpsCommitted' = CommitPositions
     \/ /\ loop.commit_needed /\ loop.last_processed_offset >= 0
        /\ gpsCommitted' = gpsCommitted        \* commit() raises
     \/ /\ ~(loop.commit_needed /\ loop.last_processed_offset >= 0)
        /\ gpsCommitted' = gpsCommitted
  /\ loop' = [loop EXCEPT
                !.pc = IF ~running THEN "done"
                       ELSE IF InPack(loop.message_pack) # {} THEN "partition"
                       ELSE "poll"]
  /\ UNCHANGED <<gpsLog, gpsPosition, handled, running, mainPc, closed>>
  /\ UNCHANGED <<signals, bvars, kvars, gvars>>

\* run_service: "while running" ends (signal, or the consumer thread is
\* done); the finally block sets running = False and waits for the thread
MainShutdown ==
  /\ mainPc = "watch"
  /\ ~running \/ loop.pc = "done"
  /\ running' = FALSE
  /\ mainPc' = "wait"
  /\ UNCHANGED <<gpsLog, gpsPosition, gpsCommitted, handled, loop, closed>>
  /\ UNCHANGED <<signals, bvars, kvars, gvars>>

\* consumer_future.result(timeout=15) returns or times out; the resources
\* are closed and the service is stopped
MainClose ==
  /\ mainPc = "wait"
  /\ closed' = Resources
  /\ mainPc' = "stopped"
  /\ UNCHANGED <<gpsLog, gpsPosition, gpsCommitted, handled, running, loop>>
  /\ UNCHANGED <<signals, bvars, kvars, gvars>>

NextLoop ==
  \/ Signal
  \/ LoopPoll
  \/ LoopExit
  \/ LoopNextPartition
  \/ LoopProcessMessage
  \/ LoopCommit
  \/ MainShutdown
  \/ MainClose

InitLoop ==
  /\ BillingIdle
  /\ TrackerIdle
  /\ gpsLog \in [Partitions -> SeqsUpTo(GpsKinds, MaxGps)]
  /\ gpsLog["p1"] \in SeqsUpTo({"ok"}, MaxGps)
  /\ LoopStarted
  /\ GettersStarted

SpecLoop == InitLoop /\ [][NextLoop]_vars

\* ===================================== the state store, called directly
\* VehicleStates a caller of update_vehicle_state stores
StoredStates == {NewVehicleState(ZoneAt(p), 0, p, "DEV1") : p \in {1, 3}}

\* state.get_vehicle_state(v)
StoreGet(v) ==
  /\ \E redisOk \in BOOLEAN, delOk \in DeleteOutcomes(store[v]) :
       /\ lastGet' = [vehicleId |-> v, redisOk |-> redisOk,
                      delOk |-> delOk, value |-> store[v],
                      returned |-> get_vehicle_state(v, redisOk)]
       /\ store' = StoreAfterGet(store, v, redisOk, delOk)
  /\ UNCHANGED <<tollEvents, errorSink, fixCount, everInZone, lastMsg>>
  /\ UNCHANGED <<bvars, lvars, gvars>>

\* state.update_vehicle_state(v, state), state None included
StorePut(v) ==
  /\ \E state \in StoredStates \cup {NoState} :
       store' = update_vehicle_state(store, v, state)
  /\ UNCHANGED <<tollEvents, errorSink, fixCount, everInZone, lastMsg,
                 lastGet>>
  /\ UNCHANGED <<bvars, lvars, gvars>>

\* another writer of the keyspace leaves a value under the key that is no
\* VehicleState
StoreCorrupt(v) ==
  /\ \E raw \in CorruptValues : store' = [store EXCEPT ![v] = raw]
  /\ UNCHANGED <<tollEvents, errorSink, fixCount, everInZone, lastMsg,
                 lastGet>>
  /\ UNCHANGED <<bvars, lvars, gvars>>

NextStore ==
  \E v \in Vehicles :
    \/ StoreGet(v)
    \/ StorePut(v)
    \/ StoreCorrupt(v)
    \/ Expire(v)

SpecStore == InitToll /\ [][NextStore]_vars

\* ------------------------------------------------------------ vocabulary
\* of the properties
\* the step is a process_gps_message call for vehicle v
Processes(v) == fixCount'[v] = fixCount[v] + 1

\* the distance between two positions, in tenths of a km
Segment(p, q) == IF p >= q THEN StepTenths * (p - q) ELSE StepTenths * (q - p)

InTrace(w, ev) == \E i \in DOMAIN trace[w] : trace[w][i] = ev

GatewayEvents == {"gateway ok", "gateway PaymentGatewayError",
                  "gateway Exception"}

GatewayReached(w) == \E ev \in GatewayEvents : InTrace(w, ev)

GatewayFailed(w) == InTrace(w, "gateway PaymentGatewayError")
                    \/ InTrace(w, "gateway Exception")

IsCommit(ev) == ev \in {"commit PENDING", "commit PROCESSING",
                        "commit SUCCESS", "commit FAILED"}

Commits(w) == SelectSeq(trace[w], IsCommit)

NoDependencyFailure(w) ==
  /\ ~InTrace(w, "rollback")
  /\ ~InTrace(w, "commit raised")
  /\ ~InTrace(w, "send failed")

ResultsFor(e) == {pr \in BagToSet(published) : pr.eventId = e}

NumResultsFor(e) == BagCardinality([pr \in ResultsFor(e) |-> published[pr]])

\* the record instance w is handling, and its offset
CurOffset(w) == Head(batch[w])

Quiescent ==
  \A w \in Workers : /\ pc[w] = "idle" /\ batch[w] = << >>
                      /\ position[w] = Len(log[w])
                      /\ committed[w] = position[w]

\* ----------------------------------------------------------------- C1
\* C1 (P1): in every reachable state there is at most one
\* BillingTransaction row per tollEventId, however often and however
\* concurrently the TollEvent is delivered.
C1_OneRowPerEvent ==
  \A e \in Events : Cardinality(RowsFor(rows, e)) <= 1

\* an instance is about to insert for an event whose PENDING row another
\* instance committed after this one's probe
C1_Witness ==
  \E w \in Workers :
    /\ pc[w] = "insert"
    /\ \E i \in RowsFor(rows, loc[w].event) : rows[i].status = "PENDING"

\* ----------------------------------------------------------------- C2
\* C2: payment.process_payment is invoked at most once per eventId, over
\* deliveries, redeliveries and concurrent deliveries, whatever the status
\* of the existing row.
C2_GatewayAtMostOnce == \A e \in Events : gwCalls[e] <= 1

\* a delivery of an event whose row is FAILED has gone past the probe and
\* returned, after the gateway was called once for that event
C2_Witness ==
  \E w \in Workers :
    /\ pc[w] = "ret" /\ loc[w].tx_id = 0
    /\ InTrace(w, "rollback") /\ loc[w].success
    /\ gwCalls[loc[w].event] = 1
    /\ \E i \in RowsFor(rows, loc[w].event) : rows[i].status = "FAILED"

\* ----------------------------------------------------------------- C3
\* C3 (P2): for every TollEvent whose workflow reached the gateway call a
\* PaymentResult with that eventId is eventually published: once every
\* record is consumed and committed (nothing is left to redeliver), every
\* event the gateway was called for has a PaymentResult.
C3_ResultPublished ==
  Quiescent => \A e \in Events : gwCalls[e] > 0 => ResultsFor(e) # {}

\* ----------------------------------------------------------------- C4
\* C4 (P6): the committed offset of a partition never moves past a record
\* whose processing returned the failure signal.
C4_NoCommitPastFailure ==
  \A w \in Workers : \A o \in DOMAIN lastResult[w] :
    lastResult[w][o] = "fail" => committed[w] < o

\* ----------------------------------------------------------------- C5
\* C5: when the gateway call has completed and the final status write then
\* fails, the workflow still publishes exactly one PaymentResult with the
\* true payment outcome, rolls back and returns the failure signal.
C5_PublishedDespiteWriteFailure ==
  \A w \in Workers :
    (pc[w] = "ret" /\ GatewayReached(w)
       /\ trace[w][Len(trace[w])] = "rollback")
    => /\ ~loc[w].success
       /\ NumResultsFor(loc[w].event) = 1
       /\ \A pr \in ResultsFor(loc[w].event) :
            /\ pr.status = loc[w].final_status
            /\ pr.gatewayReference = loc[w].gateway_ref

\* ----------------------------------------------------------------- C6
\* the step by which instance w runs the idempotency probe on an event that
\* already has a row in status SUCCESS, PENDING, PROCESSING or RETRY
ProbesHandledRow(w) ==
  /\ pc[w] = "idle" /\ pc'[w] # "idle"
  /\ LET e == log[w][CurOffset(w)]
     IN \E i \in RowsFor(rows, e) :
          rows[i].status \in {"SUCCESS", "PENDING", "PROCESSING", "RETRY"}

\* C6: a delivery that finds a row in status SUCCESS, PENDING, PROCESSING
\* or RETRY returns the handled signal with no row added or modified, no
\* database commit, no gateway call and no PaymentResult; the consumer then
\* commits the offset of the record.
C6_DuplicateIsHandled ==
  [][\A w \in Workers :
       /\ ProbesHandledRow(w) =>
            /\ pc'[w] = "ret" /\ loc'[w].success
            /\ trace'[w] = <<"select">>
            /\ rows' = rows /\ gwCalls' = gwCalls /\ published' = published
       /\ (pc[w] = "ret" /\ trace[w] = <<"select">> /\ pc'[w] = "idle") =>
            /\ committed'[w] >= CurOffset(w)
            /\ rows' = rows /\ gwCalls' = gwCalls /\ published' = published
    ]_vars

\* the workflow has returned at once on a row in status RETRY
C6_Witness ==
  \E w \in Workers :
    /\ pc[w] = "ret" /\ trace[w] = <<"select">> /\ loc[w].success
    /\ \E i \in RowsFor(rows, loc[w].event) : rows[i].status = "RETRY"

\* ----------------------------------------------------------------- C7
\* C7: a gateway failure is a normal outcome. In a run in which the
\* database and the publisher work, PaymentGatewayError(code, message)
\* ends in a FAILED row with errorMessage "<code>: <message>" and no
\* gateway reference, any other exception in a FAILED row with errorMessage
\* "Unexpected system error: ..."; a PaymentResult FAILED with that message
\* is published, the workflow returns success and the offset is committed.
C7_GatewayFailureIsNormal ==
  [][\A w \in Workers :
       LET row == rows[loc[w].tx_id]
           result == PaymentResultOf(loc[w])
       IN
       /\ (pc[w] \in {"publish", "ret"} /\ GatewayFailed(w)
             /\ NoDependencyFailure(w)) =>
            /\ row.status = "FAILED" /\ row.payment_gateway_ref = None
            /\ InTrace(w, "gateway PaymentGatewayError") =>
                 row.error_message \in
                   {pge[2] \o ": " \o pge[1] : pge \in GatewayErrors}
            /\ InTrace(w, "gateway Exception") =>
                 row.error_message \in
                   {"Unexpected system error: " \o m : m \in OtherErrors}
       /\ (pc[w] = "ret" /\ GatewayFailed(w) /\ NoDependencyFailure(w)) =>
            /\ loc[w].success
            /\ result.status = "FAILED"
            /\ result.errorMessage = row.error_message
            /\ CopiesIn(result, published) = 1
            /\ NumResultsFor(loc[w].event) = 1
            /\ pc'[w] = "idle" => committed'[w] >= CurOffset(w)
    ]_vars

\* the workflow has returned after the gateway declined the payment
C7_Witness ==
  \E w \in Workers :
    /\ pc[w] = "ret" /\ InTrace(w, "gateway PaymentGatewayError")
    /\ NoDependencyFailure(w)
    /\ rows[loc[w].tx_id].error_message = "CARD_DECLINED: Card declined"

\* ----------------------------------------------------------------- C8
\* C8: for an event with no row and no dependency failure, when the gateway
\* returns a reference the workflow makes exactly three commits, in the order
\* PENDING, PROCESSING, final status; the row ends SUCCESS with that
\* reference and no error message; exactly one PaymentResult SUCCESS with
\* that reference is published; the workflow returns success.
C8_SuccessPath ==
  \A w \in Workers :
    (pc[w] = "ret" /\ InTrace(w, "gateway ok") /\ NoDependencyFailure(w)) =>
      LET row == rows[loc[w].tx_id]
      IN /\ Commits(w) = <<"commit PENDING", "commit PROCESSING",
                           "commit SUCCESS">>
         /\ loc[w].gateway_ref # None
         /\ row.status = "SUCCESS"
         /\ row.payment_gateway_ref = loc[w].gateway_ref
         /\ row.error_message = None
         /\ NumResultsFor(loc[w].event) = 1
         /\ \A pr \in ResultsFor(loc[w].event) :
              /\ pr.status = "SUCCESS"
              /\ pr.gatewayReference = loc[w].gateway_ref
              /\ pr.transactionId = loc[w].tx_id
         /\ loc[w].success

\* the workflow has returned after a successful payment
C8_Witness ==
  \E w \in Workers :
    /\ pc[w] = "ret" /\ InTrace(w, "gateway ok") /\ NoDependencyFailure(w)
    /\ rows[loc[w].tx_id].status = "SUCCESS"

\* ----------------------------------------------------------------- C9
\* the step in which the insert of the PENDING row fails with a database
\* error that is no uniqueness violation
InsertFails(w) ==
  pc[w] = "insert" /\ pc'[w] = "ret" /\ ~loc'[w].success

\* C9: when the insert of the PENDING row fails with a database error that
\* is no uniqueness violation, the workflow rolls back and returns the
\* failure signal without a gateway call, a PaymentResult or a new row; the
\* consumer does not commit the offset when it handles that return.
C9_InsertFailure ==
  [][\A w \in Workers :
       /\ InsertFails(w) =>
            /\ trace'[w] = <<"select", "rollback">>
            /\ rows' = rows /\ gwCalls' = gwCalls /\ published' = published
       /\ (pc[w] = "ret" /\ trace[w] = <<"select", "rollback">>
             /\ ~loc[w].success /\ pc'[w] = "idle") =>
            /\ committed' = committed
            /\ rows' = rows /\ gwCalls' = gwCalls /\ published' = published
    ]_vars

\* the insert failed for an event that has no row
C9_Witness ==
  \E w \in Workers :
    /\ pc[w] = "ret" /\ trace[w] = <<"select", "rollback">>
    /\ ~loc[w].success
    /\ RowsFor(rows, loc[w].event) = {}

\* ---------------------------------------------------------------- C10
\* C10 (P3): for a vehicle with no stored state, after any sequence of valid
\* fixes that all lie outside every zone, no TollEvent has been emitted for
\* the vehicle and no VehicleState is stored for it.
C10_OutsideLeavesNothing ==
  \A v \in Vehicles :
    ~everInZone[v] =>
      /\ store[v] = NoState
      /\ \A i \in DOMAIN tollEvents : tollEvents[i].vehicleId # v

\* a vehicle has sent two fixes, all outside, while the other one is
\* tracked inside a zone
C10_Witness ==
  \E v \in Vehicles :
    /\ fixCount[v] >= 2 /\ ~everInZone[v] /\ errorSink = 0
    /\ \E u \in Vehicles : store[u] # NoState

\* ---------------------------------------------------------------- C11
\* C11 (Entry): a valid fix of a vehicle whose state is absent, at a point
\* for which the geofence lookup returns zone Z, makes one
\* update_vehicle_state call, with a VehicleState that has in_zone true,
\* zone_id and rate of Z, distance_km 0, entry_time the fix timestamp, lat
\* and deviceId of the fix; that state is then the stored one; no TollEvent
\* is sent; the call returns success.
C11_Entry ==
  [][\A v \in Vehicles :
       (Processes(v) /\ lastMsg'.kind = "fix" /\ lastMsg'.prior = NoState
          /\ lastMsg'.zone # NoZone) =>
         /\ Len(lastMsg'.updates) = 1
         /\ LET saved_state == lastMsg'.updates[1]
                fix == lastMsg'.fix
            IN /\ saved_state.in_zone
               /\ saved_state.zone_id = ZoneAt(fix.p).zone_id
               /\ saved_state.rate_per_km = ZoneAt(fix.p).rate_per_km
               /\ saved_state.distance_km = 0
               /\ saved_state.entry_time = fix.ts
               /\ saved_state.lat = fix.p
               /\ saved_state.deviceId = fix.deviceId
               /\ store'[v] = saved_state
         /\ lastMsg'.sent = << >> /\ tollEvents' = tollEvents
         /\ lastMsg'.result
    ]_vars

\* VEH_A has entered ZoneB through device DEV2 at time 1
C11_Witness ==
  /\ lastMsg.kind = "fix" /\ lastMsg.vehicleId = "VEH_A"
  /\ lastMsg.prior = NoState /\ lastMsg.zone # NoZone
  /\ store["VEH_A"] # NoState
  /\ store["VEH_A"].zone_id = "ZoneB"
  /\ store["VEH_A"].deviceId = "DEV2" /\ store["VEH_A"].entry_time = 1

C13_Exit ==
  [][\A v \in Vehicles :
       (Processes(v) /\ lastMsg'.kind = "fix" /\ lastMsg'.prior # NoState
          /\ lastMsg'.zone = NoZone) =>
         LET prior == lastMsg'.prior
             fix == lastMsg'.fix
         IN /\ Len(lastMsg'.sent) = 1
            /\ tollEvents' = Append(tollEvents, lastMsg'.sent[1])
            /\ LET toll_event == lastMsg'.sent[1]
               IN /\ toll_event.vehicleId = v
                  /\ toll_event.zoneId = prior.zone_id
                  /\ toll_event.entryTime = prior.entry_time
                  /\ toll_event.deviceId = prior.deviceId
                  /\ toll_event.exitTime = fix.ts
                  /\ toll_event.distanceKm
                       = prior.distance_km + Segment(prior.lat, fix.p)
            /\ lastMsg'.updates = <<NoState>>
            /\ store'[v] = NoState
    ]_vars

\* VEH_A, which entered through DEV1, has left its zone with a fix sent
\* through DEV2
C13_Witness ==
  /\ lastMsg.kind = "fix" /\ lastMsg.vehicleId = "VEH_A"
  /\ lastMsg.prior # NoState /\ lastMsg.zone = NoZone
  /\ lastMsg.prior.deviceId = "DEV1" /\ lastMsg.fix.deviceId = "DEV2"
  /\ lastMsg.prior.entry_time # lastMsg.fix.ts
  /\ store["VEH_A"] = NoState
  /\ Len(tollEvents) = 1

\* ---------------------------------------------------------------- C14
\* C14 (Transition): a fix of a vehicle whose stored state is in zone A, at
\* a point for which the lookup returns another zone B, sends exactly one
\* TollEvent, for A (exitTime the fix timestamp, distanceKm the stored
\* distance plus the segment, rate of A), and calls update_vehicle_state
\* exactly twice: first with None, then with a fresh VehicleState for B
\* (distance_km 0, entry_time the fix timestamp, rate of B, the deviceId
\* of the stored state).
C14_Transition ==
  [][\A v \in Vehicles :
       (Processes(v) /\ lastMsg'.kind = "fix" /\ lastMsg'.prior # NoState
          /\ lastMsg'.zone # NoZone
          /\ lastMsg'.zone.zone_id # lastMsg'.prior.zone_id) =>
         LET prior == lastMsg'.prior
             fix == lastMsg'.fix
         IN /\ Len(lastMsg'.sent) = 1
            /\ tollEvents' = Append(tollEvents, lastMsg'.sent[1])
            /\ LET toll_event_a == lastMsg'.sent[1]
               IN /\ toll_event_a.zoneId = prior.zone_id
                  /\ toll_event_a.exitTime = fix.ts
                  /\ toll_event_a.distanceKm
                       = prior.distance_km + Segment(prior.lat, fix.p)
                  /\ toll_event_a.ratePerKm = prior.rate_per_km
            /\ Len(lastMsg'.updates) = 2
            /\ lastMsg'.updates[1] = NoState
            /\ LET new_state_b == lastMsg'.updates[2]
               IN /\ new_state_b.in_zone
                  /\ new_state_b.zone_id = ZoneAt(fix.p).zone_id
                  /\ new_state_b.rate_per_km = ZoneAt(fix.p).rate_per_km
                  /\ new_state_b.distance_km = 0
                  /\ new_state_b.entry_time = fix.ts
                  /\ new_state_b.lat = fix.p
                  /\ new_state_b.deviceId = prior.deviceId
                  /\ store'[v] = new_state_b
    ]_vars

\* VEH_A, tracked in ZoneA since it entered through DEV1, has moved into
\* ZoneB with a fix sent through DEV2
C14_Witness ==
  /\ lastMsg.kind = "fix" /\ lastMsg.vehicleId = "VEH_A"
  /\ lastMsg.prior # NoState /\ lastMsg.prior.zone_id = "ZoneA"
  /\ lastMsg.prior.deviceId = "DEV1" /\ lastMsg.fix.deviceId = "DEV2"
  /\ lastMsg.zone # NoZone /\ lastMsg.zone.zone_id = "ZoneB"
  /\ store["VEH_A"] # NoState /\ store["VEH_A"].zone_id = "ZoneB"
  /\ Len(tollEvents) = 1 /\ tollEvents[1].zoneId = "ZoneA"

\* ---------------------------------------------------------------- C15
\* C15 (P5): every TollEvent has tollAmount equal to distanceKm x ratePerKm
\* rounded half-up to cents: with the product in tenths of a cent, the
\* amount is the number of cents within half a cent of it, the half going
\* up.
C15_AmountHalfUp ==
  \A i \in DOMAIN tollEvents :
    LET toll_event == tollEvents[i]
        product == toll_event.distanceKm * toll_event.ratePerKm
    IN /\ 10 * toll_event.tollAmount <= product + 5
       /\ product + 5 < 10 * toll_event.tollAmount + 10

\* a TollEvent whose product is exactly half a cent above a whole number
\* of cents has been emitted, and its amount is the higher one
C15_Witness ==
  \E i \in DOMAIN tollEvents :
    /\ (tollEvents[i].distanceKm * tollEvents[i].ratePerKm) % 10 = 5
    /\ tollEvents[i].distanceKm = 3 * StepTenths
    /\ 10 * tollEvents[i].tollAmount
         = tollEvents[i].distanceKm * tollEvents[i].ratePerKm + 5

\* ---------------------------------------------------------------- C16
\* C16: a GPS record with a missing field, or with a timestamp more than
\* 10 min old or more than 60 s ahead, makes process_gps_message call
\* publish_error exactly once, neither read nor write the vehicle state,
\* not query the geofence, send no TollEvent and return success.
C16_InvalidIsPoisonPill ==
  [][\A v \in Vehicles :
       (Processes(v) /\ (\/ ~lastMsg'.complete
                         \/ lastMsg'.age > 600
                         \/ lastMsg'.age < 0 - 60)) =>
         /\ lastMsg'.kind = "invalid"
         /\ lastMsg'.errors = 1
         /\ lastMsg'.errorSent => errorSink' = errorSink + 1
         /\ lastMsg'.reads = 0 /\ lastMsg'.lookups = 0
         /\ lastMsg'.updates = << >> /\ store' = store
         /\ lastMsg'.sent = << >> /\ tollEvents' = tollEvents
         /\ lastMsg'.result
    ]_vars

\* a record stamped 11 min ago, of a vehicle that is tracked inside a zone,
\* has been rejected and its error is on the error topic
C16_Witness ==
  /\ lastMsg.kind = "invalid" /\ lastMsg.errorSent
  /\ lastMsg.complete /\ lastMsg.age = 660
  /\ store[lastMsg.vehicleId] # NoState
  /\ errorSink = 1

\* ---------------------------------------------------------------- C17
\* C17: after a termination signal the service ends stopped with the
\* consumer, the producer, the DB pool and the state-store client closed;
\* once the consumer thread has finished as well, every record it polled
\* has been processed, and no committed offset covers a record that was
\* not processed.
C17_GracefulShutdown ==
  /\ mainPc = "stopped" => closed = Resources
  /\ (mainPc = "stopped" /\ loop.pc = "done") =>
       \A tp \in Partitions :
         /\ \A offset \in 1..gpsPosition[tp] :
              \E i \in DOMAIN handled[tp] : handled[tp][i] = offset
         /\ \A offset \in 1..gpsCommitted[tp] :
              \E i \in DOMAIN handled[tp] : handled[tp][i] = offset

\* ---------------------------------------------------------------- C18
\* C18: every inserted BillingTransaction row eventually reaches SUCCESS or
\* FAILED; a row that a failed final-status write left in PENDING or
\* PROCESSING is advanced by the redelivery of its TollEvent. Once every
\* record is consumed and committed and the last delivery of every record
\* ran the workflow to its handled signal (each failed record has been
\* redelivered), every row is SUCCESS or FAILED.
C18_RowsReachTerminal ==
  (/\ Quiescent
   /\ \A w \in Workers : \A o \in DOMAIN lastResult[w] :
        lastResult[w][o] \in {"ok", "poison"})
  => \A i \in DOMAIN rows : rows[i].status \in {"SUCCESS", "FAILED"}

\* ---------------------------------------------------------------- C19
\* C19: over any sequence of deliveries of TollEvents, duplicates and
\* concurrent deliveries included, at most one PaymentResult is published
\* per eventId.
C19_OneResultPerEvent == \A e \in Events : NumResultsFor(e) <= 1

\* both instances are handling TollEvent e1 at once: one has published its
\* PaymentResult, the other has passed the probe and is about to insert
C19_Witness ==
  /\ pc["w1"] = "ret" /\ InTrace("w1", "send ok") /\ loc["w1"].event = "e1"
  /\ pc["w2"] = "insert" /\ loc["w2"].event = "e1"
  /\ NumResultsFor("e1") = 1

\* ---------------------------------------------------------------- C20
\* every published PaymentResult has its row: same event, the row's id as
\* transactionId, the row's committed status and gateway reference
ResultsMatchRows ==
  \A pr \in BagToSet(published) :
    /\ pr.status \in {"SUCCESS", "FAILED"}
    /\ pr.transactionId \in RowsFor(rows, pr.eventId)
    /\ rows[pr.transactionId].status = pr.status
    /\ rows[pr.transactionId].payment_gateway_ref = pr.gatewayReference

InsertsOnFailedRow(w) ==
  /\ pc[w] = "insert"
  /\ \E i \in RowsFor(rows, loc[w].event) : rows[i].status = "FAILED"

\* C21: a delivery of a TollEvent whose row is FAILED goes past the probe
\* to the insert, which is refused; the gateway is not invoked, the row
\* stays as it is (FAILED, with its error message), no row is added and no
\* PaymentResult is published; the refusal by the unique constraint returns
\* the handled signal and the consumer then commits the offset.
C21_FailedIsNotRetried ==
  [][\A w \in Workers :
       /\ (pc[w] = "idle" /\ pc'[w] # "idle"
             /\ \E i \in RowsFor(rows, log[w][CurOffset(w)]) :
                  rows[i].status = "FAILED") =>
            /\ pc'[w] = "insert"
            /\ rows' = rows /\ gwCalls' = gwCalls /\ published' = published
       /\ (InsertsOnFailedRow(w) /\ pc'[w] # "insert") =>
            /\ pc'[w] = "ret"
            /\ trace'[w] = <<"select", "rollback">>
            /\ rows' = rows /\ gwCalls' = gwCalls /\ published' = published
       /\ (pc[w] = "ret" /\ trace[w] = <<"select", "rollback">>
             /\ loc[w].success /\ pc'[w] = "idle") =>
            /\ committed'[w] >= CurOffset(w)
            /\ lastResult'[w][CurOffset(w)] = "ok"
            /\ rows' = rows /\ gwCalls' = gwCalls /\ published' = published
    ]_vars

\* TollEvent e1, declined by the gateway at its first delivery, has been
\* delivered a second time: one gateway call, one row, FAILED with the
\* gateway's message, one PaymentResult, and both offsets committed
C21_Witness ==
  /\ log["w1"] = <<"e1", "e1">> /\ committed["w1"] = 2
  /\ lastResult["w1"] = <<"ok", "ok">>
  /\ gwCalls["e1"] = 1 /\ Len(rows) = 1
  /\ rows[1].status = "FAILED"
  /\ rows[1].error_message = "CARD_DECLINED: Card declined"
  /\ NumResultsFor("e1") = 1

\* ---------------------------------------------------------------- C22
\* instance u holds the row it inserted for the event that instance w is
\* handling too
WonInsert(u, w) ==
  /\ u # w
  /\ loc[u].event = loc[w].event
  /\ loc[u].tx_id \in RowsFor(rows, loc[w].event)

\* C22: when two instances handle the same TollEvent and both have passed
\* the probe before either inserts, one insert commits and it adds the only
\* row of the event; the insert of the other is refused, it rolls back and
\* leaves the rows, the gateway and the PaymentResult topic as they are;
\* refused by the unique constraint it returns the handled signal, and the
\* consumer commits its offset without touching the winner's row.
C22_ConcurrentInsert ==
  [][\A w \in Workers : \A u \in Workers \ {w} :
       /\ (pc[w] = "insert" /\ pc[u] = "insert"
             /\ loc[w].event = loc[u].event /\ pc'[w] = "mark") =>
            /\ rows' = Append(rows, NewTx(loc[w].event))
            /\ RowsFor(rows', loc[w].event) = {loc'[w].tx_id}
            /\ pc'[u] = "insert" /\ loc'[u].tx_id = 0
       /\ (pc[w] = "insert" /\ WonInsert(u, w) /\ pc'[w] # "insert") =>
            /\ pc'[w] = "ret" /\ loc'[w].tx_id = 0
            /\ trace'[w] = <<"select", "rollback">>
            /\ rows' = rows /\ gwCalls' = gwCalls /\ published' = published
       /\ (pc[w] = "ret" /\ WonInsert(u, w) /\ loc[w].tx_id = 0
             /\ pc'[w] = "idle") =>
            /\ loc[w].success => committed'[w] >= CurOffset(w)
            /\ rows' = rows /\ gwCalls' = gwCalls /\ published' = published
    ]_vars

\* both instances passed the probe for e1 when it had no row; w1 inserted
\* and is at the gateway call, w2 was refused and returns the handled
\* signal
C22_Witness ==
  /\ pc["w1"] = "gateway" /\ loc["w1"].event = "e1"
  /\ Len(rows) = 1 /\ rows[1].status = "PROCESSING"
  /\ pc["w2"] = "ret" /\ loc["w2"].event = "e1" /\ loc["w2"].success
  /\ trace["w2"] = <<"select", "rollback">>
  /\ gwCalls["e1"] = 0

\* ---------------------------------------------------------------- C23
\* C23: while the Toll Processor runs, the offset committed for a partition
\* covers only records of that partition that were passed to
\* process_gps_message and did not return failure: it is not advanced past
\* a failed record, and a commit made for one partition does not cover
\* records of another partition that are still to be processed.
C23_CommitContiguous ==
  running =>
    \A tp \in Partitions : \A offset \in 1..gpsCommitted[tp] :
      /\ \E i \in DOMAIN handled[tp] : handled[tp][i] = offset
      /\ gpsLog[tp][offset] # "fail"

\* ---------------------------------------------------------------- C24
\* a record carrying TollEvent e is in the batch polled by instance w
Delivered(w, e) == \E i \in DOMAIN batch[w] : log[w][batch[w][i]] = e

\* TollEvent e is billed or recorded: its row is SUCCESS or FAILED
Settled(e) ==
  \E i \in RowsFor(rows, e) : rows[i].status \in {"SUCCESS", "FAILED"}

\* the consumer has gone on after the record at offset o: a later record of
\* the partition has been handled
HandledLater(w, o) ==
  \E o2 \in DOMAIN lastResult[w] : o2 > o /\ lastResult[w][o2] # "none"

\* the workflow returned the failure signal for the record at offset o,
\* which is out of the consumer's hands, and the consumer went on
FailedAndPassed(w, o) ==
  /\ o \in DOMAIN lastResult[w]
  /\ lastResult[w][o] = "fail"
  /\ ~Delivered(w, log[w][o])
  /\ HandledLater(w, o)

\* C24: a TollEvent whose workflow returned the failure signal, in a
\* consumer that keeps running and handles later records of the partition,
\* is eventually delivered to the workflow again, unless it is billed or
\* recorded already.
C24_FailedIsRedelivered ==
  \A w \in Workers : \A o \in 1..MaxLog :
    FailedAndPassed(w, o)
    ~> (o \in DOMAIN log[w] /\ (Delivered(w, log[w][o]) \/ Settled(log[w][o])))

\* ---------------------------------------------------------------- C25
\* the step in which instance w handles a record that is no TollEvent
HandlesBadRecord(w) ==
  /\ pc[w] = "idle" /\ batch[w] # << >>
  /\ log[w][CurOffset(w)] = BadRecord
  /\ batch'[w] = Tail(batch[w])

\* what a poison pill leaves alone in the Billing Consumer: no database
\* session (no select, no row), no gateway call, no PaymentResult; and its
\* offset is committed
PoisonPillSkipped(w) ==
  /\ committed'[w] >= CurOffset(w)
  /\ pc'[w] = "idle" /\ trace'[w] = trace[w]
  /\ rows' = rows /\ gwCalls' = gwCalls /\ published' = published

\* C25: a record of the TollEvent topic that does not parse into a
\* TollEvent is handled as a poison pill: one error is published to the
\* error sink, the offset is committed, no database session is opened, no
\* row is written, the gateway is not invoked and no PaymentResult is
\* published.
C25_BillingPoisonPill ==
  [][\A w \in Workers :
       HandlesBadRecord(w) =>
         /\ errorSink' = errorSink + 1
         /\ PoisonPillSkipped(w)
    ]_vars

\* ---------------------------------------------------------------- C26
\* the step in which the workflow run by instance w raises to
\* process_message
WorkflowRaises(w) ==
  /\ pc[w] = "idle" /\ batch[w] # << >>
  /\ log[w][CurOffset(w)] \in Events
  /\ lastResult'[w][CurOffset(w)] = "raised"
  /\ batch'[w] = Tail(batch[w])

\* C26: when the processing of a record raises an unexpected exception, a
\* structured error is published to the error sink, the offset of the
\* record is committed, and the consumer goes on with the next record.
C26_ExceptionIsReported ==
  [][\A w \in Workers :
       WorkflowRaises(w) =>
         /\ errorSink' = errorSink + 1
         /\ committed'[w] >= CurOffset(w)
         /\ pc'[w] = "idle"
    ]_vars

\* ---------------------------------------------------------------- C27
\* C27: a state-store connection error or timeout is surfaced to the
\* Tracker as a failure, never as an absent state: a fix is handled on the
\* state that is stored for the vehicle, or else it is reported as failed
\* and changes nothing.
C27_StoreFailureSurfaced ==
  [][\A v \in Vehicles :
       (Processes(v) /\ lastMsg'.kind = "fix") =>
         \/ lastMsg'.prior = store[v]
         \/ /\ ~lastMsg'.result
            /\ store' = store /\ tollEvents' = tollEvents
    ]_vars

\* ---------------------------------------------------------------- C28
\* C28: get_vehicle_state on a key whose value is corrupt (no JSON, or JSON
\* that is no VehicleState) returns absent and, when the store answers its
\* commands, leaves no value under the key, so that the next get finds the
\* key absent.
C28_CorruptIsDeleted ==
  [][\A v \in Vehicles :
       (lastGet' # lastGet /\ lastGet'.vehicleId = v
          /\ lastGet'.value \in CorruptValues) =>
         /\ lastGet'.returned = NoState
         /\ (lastGet'.redisOk /\ lastGet'.delOk) => store'[v] = NoState
    ]_vars

\* ---------------------------------------------------------------- C29
\* C29: get_current_toll_zone returns absent on a database error, and the
\* Tracker handles the fix as one outside every zone: with no state for the
\* vehicle nothing is stored or sent; with a state in zone Z this is the
\* Exit transition, one TollEvent for Z is sent and the state is deleted.
\* The call returns success.
C29_LookupErrorIsOutside ==
  [][\A v \in Vehicles :
       (Processes(v) /\ lastMsg'.kind = "fix" /\ ~lastMsg'.lookupOk) =>
         /\ lastMsg'.zone = NoZone
         /\ lastMsg'.result
         /\ lastMsg'.prior = NoState =>
              /\ lastMsg'.updates = << >> /\ store' = store
              /\ lastMsg'.sent = << >> /\ tollEvents' = tollEvents
         /\ lastMsg'.prior # NoState =>
              /\ Len(lastMsg'.sent) = 1
              /\ tollEvents' = Append(tollEvents, lastMsg'.sent[1])
              /\ lastMsg'.sent[1].zoneId = lastMsg'.prior.zone_id
              /\ lastMsg'.sent[1].exitTime = lastMsg'.fix.ts
              /\ lastMsg'.updates = <<NoState>>
              /\ store'[v] = NoState
    ]_vars

\* the lookup failed for a fix of VEH_A at a point inside ZoneA, where the
\* vehicle was being tracked: its TollEvent is out and its state is gone
C29_Witness ==
  /\ lastMsg.kind = "fix" /\ lastMsg.vehicleId = "VEH_A"
  /\ ~lastMsg.lookupOk /\ ZoneAt(lastMsg.fix.p) # NoZone
  /\ lastMsg.prior # NoState /\ lastMsg.prior.zone_id = "ZoneA"
  /\ ZoneAt(lastMsg.fix.p).zone_id = "ZoneA"
  /\ store["VEH_A"] = NoState
  /\ Len(tollEvents) = 1 /\ tollEvents[1].zoneId = "ZoneA"

\* ---------------------------------------------------------------- C30
\* C30: every VehicleState the Tracker has stored, after any sequence of
\* valid fixes in any order of timestamps, has in_zone true, a zone_id, a
\* rate and an entry_time, distance_km >= 0 and last_update >= entry_time.
C30_StoredStateInvariant ==
  \A v \in Vehicles :
    store[v] # NoState =>
      /\ store[v].in_zone
      /\ store[v].zone_id \in {"ZoneA", "ZoneB"}
      /\ store[v].rate_per_km > 0
      /\ store[v].entry_time \in Timestamps
      /\ store[v].distance_km >= 0
      /\ store[v].last_update >= store[v].entry_time

\* ---------------------------------------------------------------- C31
\* C31: within a run the consumer thread passes the records of a partition
\* to process_gps_message in offset order: the offsets processed so far are
\* increasing, and every record still waiting in the batch of the partition
\* has a higher offset than every record processed.
C31_BrokerOrder ==
  \A tp \in Partitions :
    /\ \A i, j \in DOMAIN handled[tp] :
         i < j => handled[tp][i] < handled[tp][j]
    /\ (loop.pc = "message" /\ loop.tp = tp) =>
         \A k \in DOMAIN loop.messages : \A i \in DOMAIN handled[tp] :
           handled[tp][i] < loop.messages[k]

\* both records of partition p0 have been processed, the first of them
\* returned failure, and the thread is processing partition p1
C31_Witness ==
  /\ handled["p0"] = <<1, 2>> /\ gpsLog["p0"][1] = "fail"
  /\ loop.pc = "message" /\ loop.tp = "p1" /\ handled["p1"] = <<1>>
  /\ running

\* ---------------------------------------------------------------- C32
\* C32: a second termination signal, delivered while the shutdown started
\* by the first is in progress, ends the process at once: the service is
\* stopped by that very step, whatever the consumer thread is doing.
C32_SecondSignalExits ==
  [][(signals = 1 /\ signals' = 2 /\ ~running) => mainPc' = "stopped"]_vars

\* ===================================== the lazy getters, called directly
\* the constructions after which the state store's ping no longer fails
MaxInstances == 3

\* the result of a getter that raised
Raised == 0 - 1

\* thread t enters getter g
Enters(t, g, at) ==
  [NoCall EXCEPT !.pc = at, !.g = g, !.atNone = (instance[g] = 0),
                 !.base = created[g]]

\* thread t leaves its getter with result r
Returns(t, r) == [thr[t] EXCEPT !.pc = "done", !.result = r]

\* get_kafka_producer, get_kafka_consumer, get_db_pool: the check made
\* without the lock
GetterCall(t, g) ==
  /\ g \in Locked
  /\ thr[t].pc \in {"idle", "done"}
  /\ thr' = [thr EXCEPT ![t] =
       IF instance[g] # 0
       THEN [Enters(t, g, "done") EXCEPT !.result = instance[g]]
       ELSE Enters(t, g, "lock")]
  /\ UNCHANGED <<instance, created, lock>>
  /\ UNCHANGED <<bvars, kvars, lvars>>

\* with _producer_lock / _consumer_lock / _pool_lock
GetterAcquire(t) ==
  /\ thr[t].pc = "lock"
  /\ lock[thr[t].g] = None
  /\ lock' = [lock EXCEPT ![thr[t].g] = t]
  /\ thr' = [thr EXCEPT ![t].pc = "recheck"]
  /\ UNCHANGED <<instance, created>>
  /\ UNCHANGED <<bvars, kvars, lvars>>

\* the second check, made under the lock
GetterRecheck(t) ==
  /\ thr[t].pc = "recheck"
  /\ LET g == thr[t].g IN
       IF instance[g] # 0
       THEN /\ thr' = [thr EXCEPT ![t] = Returns(t, instance[g])]
            /\ lock' = [lock EXCEPT ![g] = None]
       ELSE /\ thr' = [thr EXCEPT ![t].pc = "init"]
            /\ lock' = lock
  /\ UNCHANGED <<instance, created>>
  /\ UNCHANGED <<bvars, kvars, lvars>>

\* the retry loop around _initialize_kafka_producer / _consumer / _db_pool:
\* one attempt succeeds, or the last one raises
GetterInitialize(t) ==
  /\ thr[t].pc = "init"
  /\ thr[t].g \in Locked
  /\ LET g == thr[t].g IN
       /\ \/ /\ created' = [created EXCEPT ![g] = created[g] + 1]
             /\ instance' = [instance EXCEPT ![g] = created[g] + 1]
             /\ thr' = [thr EXCEPT ![t] = Returns(t, created[g] + 1)]
          \/ /\ created' = created
             /\ instance' = [instance EXCEPT ![g] = 0]
             /\ thr' = [thr EXCEPT ![t] =
                          [Returns(t, Raised) EXCEPT !.failed = TRUE]]
       /\ lock' = [lock EXCEPT ![g] = None]
  /\ UNCHANGED <<bvars, kvars, lvars>>

\* get_redis_client: if _redis_client
RedisCall(t) ==
  /\ thr[t].pc \in {"idle", "done"}
  /\ thr' = [thr EXCEPT ![t] =
       IF instance["redis"] # 0 THEN Enters(t, "redis", "ping")
                                ELSE Enters(t, "redis", "isnone")]
  /\ UNCHANGED <<instance, created, lock>>
  /\ UNCHANGED <<bvars, kvars, lvars>>

\* _redis_client.ping() on the existing client: it answers and the global
\* is returned, or it fails (or the global is None by now) and the global
\* is reset
RedisPing(t) ==
  /\ thr[t].pc = "ping"
  /\ \/ /\ instance["redis"] # 0
        /\ thr' = [thr EXCEPT ![t] = Returns(t, instance["redis"])]
        /\ instance' = instance
     \/ /\ instance["redis"] = 0 \/ created["redis"] < MaxInstances
        /\ thr' = [thr EXCEPT ![t].pc = "isnone",
                              ![t].failed = (instance["redis"] # 0)]
        /\ instance' = [instance EXCEPT !["redis"] = 0]
  /\ UNCHANGED <<created, lock>>
  /\ UNCHANGED <<bvars, kvars, lvars>>

\* if _redis_client is None: ... else fall through to return None
RedisIsNone(t) ==
  /\ thr[t].pc = "isnone"
  /\ thr' = [thr EXCEPT ![t] =
       IF instance["redis"] = 0 THEN [thr[t] EXCEPT !.pc = "init"]
                                ELSE Returns(t, 0)]
  /\ UNCHANGED <<instance, created, lock>>
  /\ UNCHANGED <<bvars, kvars, lvars>>

\* _initialize_redis_client: _redis_client = redis.Redis(...)
RedisConstruct(t) ==
  /\ thr[t].pc = "init"
  /\ thr[t].g = "redis"
  /\ created' = [created EXCEPT !["redis"] = created["redis"] + 1]
  /\ instance' = [instance EXCEPT !["redis"] = created["redis"] + 1]
  /\ thr' = [thr EXCEPT ![t].pc = "verify"]
  /\ UNCHANGED lock
  /\ UNCHANGED <<bvars, kvars, lvars>>

\* _initialize_redis_client: _redis_client.ping(); return _redis_client, or
\* the ping fails (or the global is None by now): the global is reset and
\* the attempt is repeated, or the last attempt raises
RedisVerify(t) ==
  /\ thr[t].pc = "verify"
  /\ \/ /\ instance["redis"] # 0
        /\ thr' = [thr EXCEPT ![t] = Returns(t, instance["redis"])]
        /\ instance' = instance
     \/ /\ instance["redis"] = 0 \/ created["redis"] < MaxInstances
        /\ instance' = [instance EXCEPT !["redis"] = 0]
        /\ \/ thr' = [thr EXCEPT ![t].pc = "init",
                                 ![t].failed = (instance["redis"] # 0)]
           \/ thr' = [thr EXCEPT ![t] =
                        [Returns(t, Raised) EXCEPT !.failed = TRUE]]
  /\ UNCHANGED <<created, lock>>
  /\ UNCHANGED <<bvars, kvars, lvars>>

NextGetters ==
  \E t \in Threads :
    \/ \E g \in Locked : GetterCall(t, g)
    \/ GetterAcquire(t)
    \/ GetterRecheck(t)
    \/ GetterInitialize(t)
    \/ RedisCall(t)
    \/ RedisPing(t)
    \/ RedisIsNone(t)
    \/ RedisConstruct(t)
    \/ RedisVerify(t)

\* the getters before any instance exists, or after run_service has
\* created each of them once
InitGetters ==
  /\ BillingIdle
  /\ TrackerIdle
  /\ gpsLog = [tp \in Partitions |-> << >>]
  /\ LoopStarted
  /\ GettersLoaded \/ GettersStarted

SpecGetters == InitGetters /\ [][NextGetters]_vars

\* ---------------------------------------------------------------- C33
\* two calls of the same getter that both began while no instance existed
\* and met no failure
FirstUse(t, u) ==
  /\ t # u
  /\ thr[t].pc = "done" /\ thr[u].pc = "done"
  /\ thr[t].g = thr[u].g
  /\ thr[t].atNone /\ thr[u].atNone
  /\ thr[t].base = thr[u].base
  /\ ~thr[t].failed /\ ~thr[u].failed

\* C33: when two threads call the getter of the producer, the consumer,
\* the DB pool or the state-store client while no instance exists, exactly
\* one instance is constructed and both calls return it.
C33_SingleInstance ==
  \A t, u \in Threads :
    FirstUse(t, u) =>
      /\ thr[t].result = thr[u].result
      /\ thr[t].result > 0
      /\ created[thr[t].g] = thr[t].base + 1

\* ---------------------------------------------------------------- C34
\* the row of the workflow with locals l is committed as PROCESSING
RowProcessing(tbl, l) ==
  /\ l.tx_id \in DOMAIN tbl
  /\ tbl[l.tx_id].toll_event_id = l.event
  /\ tbl[l.tx_id].status = "PROCESSING"

\* C34: the gateway is invoked only after PROCESSING has been committed:
\* while a workflow is at the gateway call its row is committed as
\* PROCESSING, the step before the gateway call is the commit of
\* PROCESSING, every gateway invocation is made from there, and a
\* workflow whose PROCESSING commit raised goes to the final write without
\* a gateway invocation.
C34_GatewayAfterProcessing ==
  [][\A w \in Workers :
       /\ pc'[w] = "gateway" =>
            /\ RowProcessing(rows', loc'[w])
            /\ pc[w] \in {"mark", "gateway"}
       /\ (pc[w] = "mark" /\ pc'[w] # "mark") =>
            /\ gwCalls' = gwCalls
            /\ pc'[w] \in {"gateway", "final"}
            /\ pc'[w] = "final" => rows' = rows
       /\ \A e \in Events :
            gwCalls'[e] # gwCalls[e] =>
              \E x \in Workers :
                /\ pc[x] = "gateway" /\ loc[x].event = e
                /\ RowProcessing(rows, loc[x])
                /\ gwCalls'[e] = gwCalls[e] + 1]_vars

\* a workflow is at the gateway call with its row PROCESSING, after the
\* workflow of an earlier event, whose PROCESSING commit raised, has
\* written FAILED without any gateway invocation
C34_Witness ==
  \E w \in Workers, i \in DOMAIN rows :
    /\ pc[w] = "gateway" /\ RowProcessing(rows, loc[w])
    /\ rows[i].status = "FAILED"
    /\ rows[i].error_message = UnexpectedErrorMessage("Connection lost")
    /\ gwCalls[rows[i].toll_event_id] = 0

\* ---------------------------------------------------------------- C35
\* C35: a row whose workflow has completed (status SUCCESS or FAILED)
\* carries in retry_count the number of times the gateway was invoked for
\* its transaction, 1 after the first attempt.
C35_RetryCountCountsAttempts ==
  \A i \in DOMAIN rows :
    rows[i].status \in {"SUCCESS", "FAILED"} =>
      rows[i].retry_count = gwCalls[rows[i].toll_event_id]

\* ---------------------------------------------------------------- C36
\* the status changes of the life cycle PENDING -> PROCESSING -> SUCCESS
\* or FAILED
LifeCycle == {<<"PENDING", "PROCESSING">>, <<"PROCESSING", "SUCCESS">>,
              <<"PROCESSING", "FAILED">>}

\* C36: a row is inserted as PENDING, and every later change of its
\* committed status is a step of PENDING -> PROCESSING -> SUCCESS or
\* FAILED: RETRY is never written, no row moves backwards, and a row in
\* SUCCESS or FAILED is never changed.
C36_StatusLifeCycle ==
  [][/\ Len(rows') >= Len(rows)
     /\ \A i \in DOMAIN rows' :
          IF i \in DOMAIN rows
          THEN \/ rows'[i].status = rows[i].status
               \/ <<rows[i].status, rows'[i].status>> \in LifeCycle
          ELSE rows'[i].status = "PENDING"]_vars

\* ---------------------------------------------------------------- C37
\* the step processes a valid fix of vehicle v and no dependency fails: the
\* read returns what the store holds and the zone lookup answers
ProcessesFix(v) ==
  /\ fixCount'[v] = fixCount[v] + 1
  /\ lastMsg'.kind = "fix"
  /\ lastMsg'.prior = store[v]
  /\ lastMsg'.lookupOk

\* C37: once the Tracker has processed a valid fix of a vehicle without a
\* dependency failure, a VehicleState is stored for the vehicle exactly if
\* the fix lies inside a zone, and the stored zone_id and rate are that
\* zone's and the stored position is that of the fix.
C37_StoredIffInZone ==
  [][\A v \in Vehicles :
       ProcessesFix(v) =>
         LET zone == ZoneAt(lastMsg'.fix.p) IN
           /\ store'[v] # NoState <=> zone # NoZone
           /\ zone # NoZone =>
                /\ store'[v].in_zone
                /\ store'[v].zone_id = zone.zone_id
                /\ store'[v].rate_per_km = zone.rate_per_km
                /\ store'[v].lat = lastMsg'.fix.p]_vars

\* a vehicle has moved from ZoneA straight into ZoneB and is stored in
\* ZoneB at the position of that fix
C37_Witness ==
  /\ lastMsg.kind = "fix" /\ lastMsg.lookupOk
  /\ lastMsg.prior # NoState /\ lastMsg.prior.zone_id = "ZoneA"
  /\ lastMsg.fix.p = 3
  /\ store[lastMsg.vehicleId] # NoState
  /\ store[lastMsg.vehicleId].zone_id = "ZoneB"
  /\ store[lastMsg.vehicleId].lat = 3

\* ---------------------------------------------------------------- C38
\* the TollEvents of vehicle v among the events sent
TollEventsOf(v, sent) == {i \in DOMAIN sent : sent[i].vehicleId = v}

\* the step handles a fix of v that ends a sojourn: its prior state is in a
\* zone and its own zone is absent (Exit) or another one (Transition)
EndsSojourn(v) ==
  /\ fixCount'[v] = fixCount[v] + 1
  /\ lastMsg'.kind = "fix"
  /\ lastMsg'.prior # NoState
  /\ \/ lastMsg'.zone = NoZone
     \/ lastMsg'.zone.zone_id # lastMsg'.prior.zone_id

\* C38: every step leaves the TollEvents sent so far in place and adds
\* exactly one for a vehicle if it is an Exit or a Transition of that
\* vehicle, and none otherwise (Entry, InZone, Outside, a rejected record,
\* a TTL expiry); so the TollEvents of a vehicle number its Exit and
\* Transition steps.
C38_OneTollEventPerSojourn ==
  [][/\ SubSeq(tollEvents', 1, Len(tollEvents)) = tollEvents
     /\ \A v \in Vehicles :
          Cardinality(TollEventsOf(v, tollEvents'))
            = Cardinality(TollEventsOf(v, tollEvents))
              + (IF EndsSojourn(v) THEN 1 ELSE 0)]_vars

\* a vehicle has left ZoneA for ZoneB and then left ZoneB: two sojourns,
\* two TollEvents
C38_Witness ==
  /\ Len(tollEvents) = 2
  /\ tollEvents[1].vehicleId = "VEH_A" /\ tollEvents[1].zoneId = "ZoneA"
  /\ tollEvents[2].vehicleId = "VEH_A" /\ tollEvents[2].zoneId = "ZoneB"
  /\ store["VEH_A"] = NoState
  /\ fixCount["VEH_A"] = 3

\* ---------------------------------------------------------------- C39
\* C39: a commit made once the shutdown has been requested covers no
\* record that was polled but not passed to process_gps_message, so that a
\* restart, which resumes at the committed offsets, delivers every such
\* record again.
C39_ShutdownCommitCoversProcessed ==
  [][~running =>
       \A tp \in Partitions :
         \A offset \in (gpsCommitted[tp] + 1)..gpsCommitted'[tp] :
           \E i \in DOMAIN handled'[tp] : handled'[tp][i] = offset]_vars

\* ---------------------------------------------------------------- C40
\* C40: a workflow that went through the gateway call and persisted the
\* final status, and whose send of the PaymentResult then failed, does
\* not return the handled signal, so the offset of its TollEvent is not
\* committed.
C40_SendFailureSurfaced ==
  \A w \in Workers :
    (/\ pc[w] = "ret"
     /\ InTrace(w, "commit PROCESSING")
     /\ InTrace(w, "send failed")) => ~loc[w].success

====
